---- MODULE Spec2Model ----
(***************************************************************************)
(* Model of setup_datasets.py: the dataset downloader of the Movie         *)
(* Recommendation Systems project.  The state is the filesystem under      *)
(* datasets/, the Kaggle environment of the machine, the position of       *)
(* main() and the values of its locals; history variables record what      *)
(* each routine did to each dataset during the current run.                *)
(***************************************************************************)
EXTENDS Integers, Sequences, FiniteSets, TLC

\* ------------------------------------------------------------------ bounds
\* number of times the script is run one after the other
MaxRuns == 2
\* number of failing operations (I/O errors, network errors) per behaviour
MaxFaults == 2

\* ------------------------------------------------------------- filesystem
\* A path is a sequence of names; the filesystem is the set of paths that
\* exist (pathlib.Path.exists()).

IsPrefix(p, q) == Len(p) <= Len(q) /\ SubSeq(q, 1, Len(p)) = p

\* a path together with all its parent directories
Parents(p) == {SubSeq(p, 1, n) : n \in 1..Len(p)}

WithParents(S) == UNION {Parents(p) : p \in S}

\* Path.iterdir(): the entries directly inside directory p
iterdir(f, p) == {q \in f : Len(q) = Len(p) + 1 /\ IsPrefix(p, q)}

\* everything at or below p
Subtree(f, p) == {q \in f : IsPrefix(p, q)}

\* Path.mkdir(parents=True, exist_ok=True)
mkdir(f, p) == f \cup Parents(p)

\* ------------------------------------------------------ configuration
datasets_root == <<"datasets">>

datasets_dir == <<"datasets", "MovieLens">>

movielens_datasets ==
    << [name |-> "MovieLens 1M", filename |-> "ml-1m.zip", extract_dir |-> "ml-1m"],
       [name |-> "MovieLens 25M", filename |-> "ml-25m.zip", extract_dir |-> "ml-25m"] >>

\* members of the two GroupLens archives, relative to the extraction root:
\* a top-level directory named like the archive, holding the data files
ZipMembers(filename) ==
    IF filename = "ml-1m.zip"
    THEN {<<"ml-1m">>, <<"ml-1m", "ratings.dat">>, <<"ml-1m", "movies.dat">>}
    ELSE {<<"ml-25m">>, <<"ml-25m", "ratings.csv">>, <<"ml-25m", "movies.csv">>}

\* the Kaggle datasets: identifier, destination, archive left by the client
\* while it downloads, and the files of the dataset
kaggle_datasets ==
    [d \in {"Netflix Shows", "Netflix Prize", "TMDB", "MyAnimeList"} |->
       CASE d = "Netflix Shows" ->
              [dataset_id |-> "shivamb/netflix-shows",
               extract_to |-> <<"datasets", "Netflix", "netflix">>,
               archive |-> "netflix-shows.zip",
               files |-> {"netflix_titles.csv"}]
         [] d = "Netflix Prize" ->
              [dataset_id |-> "netflix-inc/netflix-prize-data",
               extract_to |-> <<"datasets", "Netflix", "netflix_prize">>,
               archive |-> "netflix-prize-data.zip",
               files |-> {"combined_data_1.txt"}]
         [] d = "TMDB" ->
              [dataset_id |-> "asaniczka/tmdb-movies-dataset-2023-930k-movies",
               extract_to |-> <<"datasets", "TMDB">>,
               archive |-> "tmdb-movies-dataset-2023-930k-movies.zip",
               files |-> {"TMDB_movie_dataset_v11.csv"}]
         [] OTHER ->
              [dataset_id |-> "hernan4444/anime-recommendation-database-2020",
               extract_to |-> <<"datasets", "anime">>,
               archive |-> "anime-recommendation-database-2020.zip",
               files |-> {"anime.csv", "rating_complete.csv"}]]

\* verify_datasets' table, in the order of the dict
required_files ==
    << [name |-> "MovieLens 1M", path |-> <<"datasets", "MovieLens", "ml-1m", "ratings.dat">>],
       [name |-> "MovieLens 25M", path |-> <<"datasets", "MovieLens", "ml-25m", "ratings.csv">>],
       [name |-> "Netflix Shows", path |-> <<"datasets", "Netflix", "netflix", "netflix_titles.csv">>],
       [name |-> "Netflix Prize", path |-> <<"datasets", "Netflix", "netflix_prize">>],
       [name |-> "TMDB", path |-> <<"datasets", "TMDB", "TMDB_movie_dataset_v11.csv">>],
       [name |-> "MyAnimeList", path |-> <<"datasets", "anime", "anime.csv">>] >>

MovieLens == {movielens_datasets[i].name : i \in 1..Len(movielens_datasets)}

Gated == DOMAIN kaggle_datasets

Datasets == MovieLens \cup Gated

MLIndex(d) == CHOOSE i \in 1..Len(movielens_datasets) : movielens_datasets[i].name = d

\* destination directory of a dataset
Destination(d) ==
    IF d \in MovieLens
    THEN datasets_dir \o <<movielens_datasets[MLIndex(d)].extract_dir>>
    ELSE kaggle_datasets[d].extract_to

\* the downloaded archive of a MovieLens dataset
ZipPath(d) == datasets_dir \o <<movielens_datasets[MLIndex(d)].filename>>

\* marker path of a dataset in verify_datasets
MarkerPath(d) ==
    required_files[CHOOSE i \in 1..Len(required_files) : required_files[i].name = d].path

\* ------------------------------------------------------------------ state
VARIABLES
    fs,           \* the set of existing paths
    kaggleEnv,    \* "not_installed", "no_credentials", "bad_credentials", "ok"
    pc,           \* position of main()
    idx,          \* loop index of setup_movielens
    todo,         \* gated datasets the current routine still has to download
    probe,        \* what check_kaggle_api did: "none", "True", "False", "raised"
    has_kaggle,   \* main's local
    log,          \* per dataset, the events of the current run, in order
    atInvoke,     \* per dataset, its destination subtree when its routine started
    invoked,      \* datasets whose routine has been invoked in the current run
    prev,         \* per dataset, the log of the previous run
    report,       \* per dataset, what verify_datasets printed
    all_present,  \* verify_datasets' return value: "none", "True", "False"
    runs,         \* number of runs started
    faults        \* number of failed operations so far

vars == <<fs, kaggleEnv, pc, idx, todo, probe, has_kaggle, log, atInvoke,
          invoked, prev, report, all_present, runs, faults>>

KaggleEnvs == {"not_installed", "no_credentials", "bad_credentials", "ok"}

NoLog == [d \in Datasets |-> <<>>]

NoReport == [d \in Datasets |-> "none"]

Init ==
    /\ fs = {}
    /\ kaggleEnv \in KaggleEnvs
    /\ pc = "main"
    /\ idx = 1
    /\ todo = <<>>
    /\ probe = "none"
    /\ has_kaggle = FALSE
    /\ log = NoLog
    /\ atInvoke = [d \in Datasets |-> {}]
    /\ invoked = {}
    /\ prev = NoLog
    /\ report = NoReport
    /\ all_present = "none"
    /\ runs = 1
    /\ faults = 0

\* an operation may fail while the budget of failures lasts
MayFail == faults < MaxFaults

Logged(d, e) == log' = [log EXCEPT ![d] = Append(@, e)]

Invoke(D) ==
    /\ invoked' = invoked \cup D
    /\ atInvoke' = [d \in Datasets |->
                      IF d \in D THEN Subtree(fs, Destination(d)) ELSE atInvoke[d]]

\* an uncaught exception ends main()
Raise ==
    /\ pc' = "crashed"
    /\ faults' = faults + 1


\* ------------------------------------------------------------ main, part 1
\* line 323: Path("datasets").mkdir(exist_ok=True), outside any try
main_mkdir ==
    /\ pc = "main"
    /\ \/ /\ fs' = mkdir(fs, datasets_root)
          /\ pc' = "check_kaggle_api"
          /\ UNCHANGED faults
       \/ /\ MayFail
          /\ Raise
          /\ UNCHANGED fs
    /\ UNCHANGED <<kaggleEnv, idx, todo, probe, has_kaggle, log, atInvoke,
                   invoked, prev, report, all_present, runs>>

\* "import kaggle": the package authenticates while it is imported.  It is
\* not there (ImportError), finds no credentials (OSError), or finds some;
\* credentials that are present but wrong load without error when they are
\* well formed and raise ValueError when a field is missing.
ImportKaggle(env) ==
    CASE env = "not_installed" -> {"ImportError"}
      [] env = "no_credentials" -> {"OSError"}
      [] env = "bad_credentials" -> {"ok", "ValueError"}
      [] OTHER -> {"ok"}

\* check_kaggle_api without its "except OSError"
check_kaggle_api_result_no_oserror(outcome) ==
    CASE outcome = "ok" -> "True"
      [] outcome = "ImportError" -> "False"
      [] OTHER -> "raised"

\* check_kaggle_api's try/except applied to the outcome of the import
check_kaggle_api_result(outcome) ==
    CASE outcome = "ok" -> "True"
      [] outcome = "OSError" -> "False"
      [] outcome = "ImportError" -> "False"
      [] OTHER -> "raised"

check_kaggle_api ==
    /\ pc = "check_kaggle_api"
    /\ \E outcome \in ImportKaggle(kaggleEnv) :
         /\ probe' = check_kaggle_api_result(outcome)
         /\ has_kaggle' = (probe' = "True")
         /\ pc' = IF probe' = "raised" THEN "crashed" ELSE "setup_movielens"
    /\ UNCHANGED <<fs, kaggleEnv, idx, todo, log, atInvoke, invoked, prev,
                   report, all_present, runs, faults>>

\* ------------------------------------------------------- setup_movielens
\* the skip test with its emptiness test inverted
already_exists_inverted(f, p) == p \in f /\ iterdir(f, p) = {}

\* line 115: extract_path.exists() and any(extract_path.iterdir())
already_exists(f, p) == p \in f /\ iterdir(f, p) # {}

\* where the loop goes after item i
NextItem(i) == IF i < Len(movielens_datasets) THEN "ml_check" ELSE "setup_netflix_datasets"

Continue ==
    /\ pc' = NextItem(idx)
    /\ idx' = IF idx < Len(movielens_datasets) THEN idx + 1 ELSE idx

\* a failed download that returns from the routine instead of continuing
AfterDownload_return(ok) == IF ok THEN "ml_extract" ELSE "setup_netflix_datasets"

\* line 121: a failed download skips the rest of the item
AfterDownload(ok) == IF ok THEN "ml_extract" ELSE "continue"

\* the unlink moved out of the "if extract_zip(...)"
AfterExtract_always(ok) == "ml_unlink"

\* line 125: the archive is unlinked only under "if extract_zip(...)"
AfterExtract(ok) == IF ok THEN "ml_unlink" ELSE "continue"

\* the archive extracted into extract_path instead
ExtractTo_extract_path(item) == datasets_dir \o <<item.extract_dir>>

\* line 125: the archive is extracted into datasets_dir
ExtractTo(item) == datasets_dir

\* ZipFile.extractall(extract_to) for a set of members
extractall(f, to, members) == f \cup WithParents({to \o m : m \in members})

\* lines 91-94
setup_movielens ==
    /\ pc = "setup_movielens"
    /\ Invoke(MovieLens)
    /\ \/ /\ fs' = mkdir(fs, datasets_dir)
          /\ pc' = "ml_check"
          /\ idx' = 1
          /\ UNCHANGED faults
       \/ /\ MayFail
          /\ Raise
          /\ UNCHANGED <<fs, idx>>
    /\ UNCHANGED <<kaggleEnv, todo, probe, has_kaggle, log, prev, report,
                   all_present, runs>>

\* lines 111-117
ml_check ==
    /\ pc = "ml_check"
    /\ LET item == movielens_datasets[idx]
           extract_path == datasets_dir \o <<item.extract_dir>>
       IN \/ /\ already_exists(fs, extract_path)
             /\ Logged(item.name, "skip")
             /\ Continue
             /\ UNCHANGED faults
          \/ /\ ~already_exists(fs, extract_path)
             /\ pc' = "ml_download"
             /\ UNCHANGED <<log, idx, faults>>
          \/ /\ extract_path \in fs      \* iterdir() raises, outside any try
             /\ MayFail
             /\ Raise
             /\ UNCHANGED <<log, idx>>
    /\ UNCHANGED <<fs, kaggleEnv, todo, probe, has_kaggle, atInvoke, invoked,
                   prev, report, all_present, runs>>

\* lines 57-73 and 120-122: urlretrieve writes the archive; when it fails the
\* archive is untouched or left partially written
download_file ==
    /\ pc = "ml_download"
    /\ LET item == movielens_datasets[idx]
           zip_path == datasets_dir \o <<item.filename>>
       IN \/ /\ fs' = fs \cup {zip_path}
             /\ Logged(item.name, "download_ok")
             /\ pc' = AfterDownload(TRUE)
             /\ UNCHANGED <<idx, faults>>
          \/ /\ MayFail
             /\ faults' = faults + 1
             /\ fs' \in {fs, fs \cup {zip_path}}
             /\ Logged(item.name, "download_fail")
             /\ IF AfterDownload(FALSE) = "continue"
                THEN Continue
                ELSE pc' = AfterDownload(FALSE) /\ UNCHANGED idx
    /\ UNCHANGED <<kaggleEnv, todo, probe, has_kaggle, atInvoke, invoked,
                   prev, report, all_present, runs>>

\* lines 76-86 and 125: extractall writes the members one after the other;
\* when it fails, the members written so far stay
extract_zip ==
    /\ pc = "ml_extract"
    /\ LET item == movielens_datasets[idx]
           members == ZipMembers(item.filename)
       IN \/ /\ fs' = extractall(fs, ExtractTo(item), members)
             /\ Logged(item.name, "extract_ok")
             /\ pc' = AfterExtract(TRUE)
             /\ UNCHANGED <<idx, faults>>
          \/ /\ MayFail
             /\ faults' = faults + 1
             /\ \E part \in SUBSET members :
                  fs' = extractall(fs, ExtractTo(item), part)
             /\ Logged(item.name, "extract_fail")
             /\ IF AfterExtract(FALSE) = "continue"
                THEN Continue
                ELSE pc' = AfterExtract(FALSE) /\ UNCHANGED idx
    /\ UNCHANGED <<kaggleEnv, todo, probe, has_kaggle, atInvoke, invoked,
                   prev, report, all_present, runs>>

\* lines 127-128: zip_path.unlink(), outside any try
ml_unlink ==
    /\ pc = "ml_unlink"
    /\ LET item == movielens_datasets[idx]
           zip_path == datasets_dir \o <<item.filename>>
       IN \/ /\ fs' = fs \ {zip_path}
             /\ Logged(item.name, "unlink")
             /\ Continue
             /\ UNCHANGED faults
          \/ /\ MayFail
             /\ Raise
             /\ UNCHANGED <<fs, log, idx>>
    /\ UNCHANGED <<kaggleEnv, todo, probe, has_kaggle, atInvoke, invoked,
                   prev, report, all_present, runs>>

\* ------------------------------------------------------- gated datasets
\* lines 146-152
check_dataset_exists(f, path) == path \in f /\ iterdir(f, path) # {}

\* the datasets of a routine that check_dataset_exists does not find
NotFound(f, routine) ==
    SelectSeq(routine, LAMBDA d : ~check_dataset_exists(f, kaggle_datasets[d].extract_to))

\* lines 190, 230, 255: without API access nothing is downloaded
ToDownload(has, missing) == IF has THEN missing ELSE <<>>

Range(s) == {s[i] : i \in 1..Len(s)}

\* the body shared by the three routines: check what exists, return when
\* everything does, print the manual instructions without API access,
\* otherwise download what is missing
GatedRoutine(routine, downloading, next) ==
    /\ Invoke(Range(routine))
    /\ \/ /\ LET missing == NotFound(fs, routine)
             IN /\ log' = [d \in Datasets |->
                             IF d \notin Range(routine) THEN log[d]
                             ELSE IF d \notin Range(missing) THEN Append(log[d], "skip")
                             ELSE IF ~has_kaggle THEN Append(log[d], "manual")
                             ELSE log[d]]
                /\ todo' = ToDownload(has_kaggle, missing)
                /\ pc' = IF todo' = <<>> THEN next ELSE downloading
          /\ UNCHANGED faults
       \/ /\ \E d \in Range(routine) : kaggle_datasets[d].extract_to \in fs
          /\ MayFail                 \* iterdir() raises, outside any try
          /\ Raise
          /\ UNCHANGED <<log, todo>>
    /\ UNCHANGED <<fs, kaggleEnv, idx, probe, has_kaggle, prev, report,
                   all_present, runs>>

\* lines 173-218
setup_netflix_datasets ==
    /\ pc = "setup_netflix_datasets"
    /\ GatedRoutine(<<"Netflix Shows", "Netflix Prize">>, "netflix_download",
                    "setup_tmdb_dataset")

\* lines 221-243
setup_tmdb_dataset ==
    /\ pc = "setup_tmdb_dataset"
    /\ GatedRoutine(<<"TMDB">>, "tmdb_download", "setup_anime_dataset")

\* lines 246-268
setup_anime_dataset ==
    /\ pc = "setup_anime_dataset"
    /\ GatedRoutine(<<"MyAnimeList">>, "anime_download", "verify_datasets")

AfterDownloads(at) ==
    CASE at = "netflix_download" -> "setup_tmdb_dataset"
      [] at = "tmdb_download" -> "setup_anime_dataset"
      [] OTHER -> "verify_datasets"

\* what kaggle.api.dataset_download_files(id, path, unzip=True) leaves in
\* path when it returns: the files of the dataset
Downloaded(f, k) == f \cup {k.extract_to \o <<n>> : n \in k.files}

\* what it may leave when it raises: with rejected credentials nothing, and
\* otherwise any part of the archive and of the files unpacked so far
Leftovers(f, k, env) ==
    IF env = "bad_credentials" THEN {f}
    ELSE {f \cup {k.extract_to \o <<n>> : n \in part} :
            part \in SUBSET (k.files \cup {k.archive})}

\* lines 155-170: everything happens inside try/except Exception
setup_kaggle_dataset ==
    /\ pc \in {"netflix_download", "tmdb_download", "anime_download"}
    /\ todo # <<>>
    /\ LET d == Head(todo)
           k == kaggle_datasets[d]
       IN IF probe # "True"
          THEN /\ Logged(d, "import_fail")       \* the import raises
               /\ UNCHANGED <<fs, faults>>
          ELSE \/ /\ MayFail                     \* mkdir raises
                  /\ faults' = faults + 1
                  /\ Logged(d, "mkdir_fail")
                  /\ UNCHANGED fs
               \/ /\ kaggleEnv = "ok"
                  /\ fs' = Downloaded(mkdir(fs, k.extract_to), k)
                  /\ Logged(d, "kaggle_ok")
                  /\ UNCHANGED faults
               \/ /\ kaggleEnv = "bad_credentials" \/ MayFail
                  /\ faults' = IF kaggleEnv = "bad_credentials" THEN faults ELSE faults + 1
                  /\ fs' \in Leftovers(mkdir(fs, k.extract_to), k, kaggleEnv)
                  /\ Logged(d, "kaggle_fail")
    /\ todo' = Tail(todo)
    /\ pc' = IF todo' = <<>> THEN AfterDownloads(pc) ELSE pc
    /\ UNCHANGED <<kaggleEnv, idx, probe, has_kaggle, atInvoke, invoked, prev,
                   report, all_present, runs>>

\* ------------------------------------------------------- verify_datasets
RECURSIVE VerifyLoop_last(_, _, _, _)
\* the loop with all_present assigned in both branches
VerifyLoop_last(f, i, rep, present) ==
    IF i > Len(required_files)
    THEN [report |-> rep, all_present |-> present]
    ELSE LET e == required_files[i]
         IN IF e.path \in f
            THEN VerifyLoop_last(f, i + 1, [rep EXCEPT ![e.name] = "Found"], TRUE)
            ELSE VerifyLoop_last(f, i + 1, [rep EXCEPT ![e.name] = "Missing"], FALSE)

RECURSIVE VerifyLoop(_, _, _, _)
\* lines 284-292: the loop over required_files from entry i on
VerifyLoop(f, i, rep, present) ==
    IF i > Len(required_files)
    THEN [report |-> rep, all_present |-> present]
    ELSE LET e == required_files[i]
         IN IF e.path \in f
            THEN VerifyLoop(f, i + 1, [rep EXCEPT ![e.name] = "Found"], present)
            ELSE VerifyLoop(f, i + 1, [rep EXCEPT ![e.name] = "Missing"], FALSE)

\* lines 271-292
verify_datasets ==
    /\ pc = "verify_datasets"
    /\ LET v == VerifyLoop(fs, 1, NoReport, TRUE)
       IN /\ report' = v.report
          /\ all_present' = IF v.all_present THEN "True" ELSE "False"
    /\ pc' = "summary"
    /\ UNCHANGED <<fs, kaggleEnv, idx, todo, probe, has_kaggle, log, atInvoke,
                   invoked, prev, runs, faults>>

\* lines 344-361: the final messages
summary ==
    /\ pc = "summary"
    /\ pc' = "done"
    /\ UNCHANGED <<fs, kaggleEnv, idx, todo, probe, has_kaggle, log, atInvoke,
                   invoked, prev, report, all_present, runs, faults>>

\* lines 364-365: the script is run again, on the filesystem the last run
\* left, in whatever Kaggle environment the machine has by then
run_again ==
    /\ pc \in {"done", "crashed"}
    /\ runs < MaxRuns
    /\ runs' = runs + 1
    /\ kaggleEnv' \in KaggleEnvs
    /\ pc' = "main"
    /\ idx' = 1
    /\ todo' = <<>>
    /\ probe' = "none"
    /\ has_kaggle' = FALSE
    /\ prev' = log
    /\ log' = NoLog
    /\ atInvoke' = [d \in Datasets |-> {}]
    /\ invoked' = {}
    /\ report' = NoReport
    /\ all_present' = "none"
    /\ UNCHANGED <<fs, faults>>

Next ==
    \/ main_mkdir
    \/ check_kaggle_api
    \/ setup_movielens
    \/ ml_check
    \/ download_file
    \/ extract_zip
    \/ ml_unlink
    \/ setup_netflix_datasets
    \/ setup_tmdb_dataset
    \/ setup_anime_dataset
    \/ setup_kaggle_dataset
    \/ verify_datasets
    \/ summary
    \/ run_again

Spec == Init /\ [][Next]_vars

\* ------------------------------------------------------------ properties
\* the destination of d in snapshot S exists and is not empty
Populated(S, d) == Destination(d) \in S /\ iterdir(S, Destination(d)) # {}

Last(s) == s[Len(s)]

Has(d, e) == \E i \in 1..Len(log[d]) : log[d][i] = e

\* the acquisition of d reported failure / success in the current run
DownloadFailed(d) == IF d \in MovieLens THEN Has(d, "download_fail") ELSE Has(d, "kaggle_fail")

Acquired(d) ==
    IF d \in MovieLens THEN Has(d, "download_ok") /\ Has(d, "extract_ok")
    ELSE Has(d, "kaggle_ok")

\* the files of a MovieLens item: its destination and its archive
ItemFiles(f, d) == Subtree(f, Destination(d)) \cup ({ZipPath(d)} \cap f)

\* C1: a dataset whose destination exists and is not empty when its routine
\* is invoked is only skipped in that run (no download, no extraction, no
\* Kaggle call is recorded for it) and its destination keeps its contents.
C1_Idempotent ==
    \A d \in invoked :
        Populated(atInvoke[d], d)
          => /\ \A i \in 1..Len(log[d]) : log[d][i] = "skip"
             /\ Subtree(fs, Destination(d)) = atInvoke[d]

C1_Witness ==
    /\ pc = "done"
    /\ \E d \in MovieLens, g \in Gated, h \in Datasets :
         /\ Populated(atInvoke[d], d) /\ log[d] = <<"skip">>
         /\ Populated(atInvoke[g], g) /\ log[g] = <<"skip">>
         /\ ~Populated(atInvoke[h], h) /\ Acquired(h)

\* C2 (as claimed): when the download of a dataset fails in a run that found
\* its destination absent, the dataset is not marked complete and
\* verify_datasets of the same run reports it "Missing".
C2_FailedDownloadIsMissing ==
    \A d \in invoked :
        (atInvoke[d] = {} /\ DownloadFailed(d))
          => /\ ~Has(d, "unlink") /\ ~Has(d, "kaggle_ok")
             /\ report[d] \in {"none", "Missing"}

\* C3 (as claimed): no exception escapes a routine; main always goes on to
\* the next routine, to verify_datasets and to the summary.
C3_NoExceptionEscapes == pc # "crashed"

\* C4: when a dataset whose destination was empty or absent is acquired
\* successfully, its marker path exists afterwards and verify_datasets
\* reports it "Found".
C4_SuccessGivesMarker ==
    \A d \in invoked :
        (~Populated(atInvoke[d], d) /\ Acquired(d))
          => /\ MarkerPath(d) \in fs
             /\ report[d] \in {"none", "Found"}

C4_Witness ==
    /\ pc = "done"
    /\ \E d \in MovieLens, g \in Gated \ {"Netflix Prize"} :
         /\ ~Populated(atInvoke[d], d) /\ Acquired(d) /\ report[d] = "Found"
         /\ ~Populated(atInvoke[g], g) /\ Acquired(g) /\ report[g] = "Found"

\* C5: verify_datasets returns True exactly when all six marker paths exist,
\* reports "Found" for exactly the entries whose path exists and "Missing"
\* for the others, and leaves the filesystem as it is.
C5_VerifyExact ==
    [][pc = "verify_datasets"
         => /\ fs' = fs
            /\ (all_present' = "True") <=> (\A d \in Datasets : MarkerPath(d) \in fs)
            /\ (all_present' = "False") <=> (\E d \in Datasets : MarkerPath(d) \notin fs)
            /\ \A d \in Datasets :
                 report'[d] = IF MarkerPath(d) \in fs THEN "Found" ELSE "Missing"]_vars

C5_Witness ==
    /\ pc = "summary"
    /\ all_present = "False"
    /\ \E d, e \in Datasets : report[d] = "Found" /\ report[e] = "Missing"

C7_ManualOnly ==
    \A d \in Gated \cap invoked :
        (~has_kaggle /\ ~Populated(atInvoke[d], d) /\ log[d] # <<>>)
          => /\ log[d] = <<"manual">>
             /\ Subtree(fs, Destination(d)) = atInvoke[d]
             /\ report[d] \in {"none", "Missing"}

\* C8: an archive is unlinked only right after its successful extraction,
\* which follows its successful download; an archive whose extraction
\* failed is not unlinked and is still there.
C8_UnlinkAfterExtract ==
    \A d \in MovieLens :
        \A i \in 1..Len(log[d]) :
            /\ log[d][i] = "unlink"
                 => i >= 3 /\ log[d][i-1] = "extract_ok" /\ log[d][i-2] = "download_ok"
            /\ log[d][i] = "extract_fail"
                 => ~Has(d, "unlink") /\ ZipPath(d) \in fs

C8_Witness ==
    \E d \in MovieLens :
        /\ log[d] = <<"download_ok", "extract_ok", "unlink">>
        /\ ZipPath(d) \notin fs
        /\ MarkerPath(d) \in fs

\* C9: a failed download or extraction of the first MovieLens item is
\* followed by the check of the second item; and once an item is finished,
\* completed or failed, the rest of the run leaves its files as they are.
C9_FailureAbortsItemOnly ==
    [][/\ \A d \in MovieLens :
            (Len(log'[d]) > Len(log[d]) /\ Last(log'[d]) \in {"download_fail", "extract_fail"}
               /\ MLIndex(d) < Len(movielens_datasets))
              => pc' = "ml_check" /\ idx' = MLIndex(d) + 1
       /\ \A d \in MovieLens :
            (log[d] # <<>> /\ Last(log[d]) \in {"download_fail", "extract_fail", "unlink"})
              => ItemFiles(fs', d) = ItemFiles(fs, d)]_vars

C9_Witness ==
    /\ pc = "done"
    /\ \E d, e \in MovieLens :
         /\ MLIndex(d) < MLIndex(e)
         /\ Last(log[d]) = "extract_fail"
         /\ ZipPath(d) \in fs
         /\ iterdir(fs, Destination(d)) # {}
         /\ Last(log[e]) = "unlink"

\* C10 (as claimed): a dataset whose acquisition failed in the last run is
\* not treated as already there by the next run.
C10_FailedIsRetried ==
    \A d \in Datasets :
        (prev[d] # <<>>
           /\ Last(prev[d]) \in {"download_fail", "extract_fail", "kaggle_fail"})
          => ~Has(d, "skip")

====
